---- MODULE Spec2Model ----
(***************************************************************************)
(* State-machine model of the winit + WebView2 builder crate (src/src/     *)
(* lib.rs): WebViewBuilder::build_with_proxy and its asynchronous          *)
(* environment / controller continuation, the WebViewWrapper handle and    *)
(* the WebViewOptional lazy slot.                                          *)
(*                                                                         *)
(* The host runs a single-threaded event loop: every API call and every    *)
(* engine callback runs to completion, so each is one action.              *)
(***************************************************************************)
EXTENDS Integers, Sequences, FiniteSets, TLC

\* ------------------------------------------------------------------ bounds
\* Number of windows build_with_proxy may create in one run.
MaxHandles == 2
\* Number of send_msg calls that reach a handle's engine in one run or are
\* dropped by it (those are numbered).
MaxSends == 1

\* --------------------------------------------------------------- constants
\* winit::window::WindowId: the window of the k-th build has identity k; the
\* identities not handed out yet stand for windows of other owners.
WindowIds == 1..MaxHandles

\* enum ShowWebview
ShowWebview == {"Immediately", "OnNavigationCompleted", "OnContentLoading"}

\* winit::event::WindowEvent, the variants the code matches on plus one of
\* the variants that fall under `_`.
WindowEvents ==
    { [kind |-> "Moved", width |-> 0, height |-> 0, text |-> <<>>],
      [kind |-> "Resized", width |-> 600, height |-> 600, text |-> <<>>],
      [kind |-> "CloseRequested", width |-> 0, height |-> 0, text |-> <<>>],
      [kind |-> "Focused", width |-> 0, height |-> 0, text |-> <<>>] }

\* The same with a second, non-square size.
MoreWindowEvents ==
    WindowEvents
    \cup { [kind |-> "Resized", width |-> 800, height |-> 450, text |-> <<>>] }

\* Which engine call of an operation fails (webview2::Error or
\* serde_json::Error), if any.
EngineFails == {"none", "get_webview", "serialize", "call"}

\* The same for the operations that make a single engine call.
CallFails == {"none", "call"}

\* The same for webview_with, whose only engine call is get_webview.
GetWebviewFails == {"none", "get_webview"}

\* `x as i32` for a u32 x: values above i32::MAX wrap around by 2^32.
AsI32(x) ==
    IF x <= 2147483647 THEN x
    ELSE ((x - 2147483647) - 2147483647) - 2

VARIABLES
    builder,    \* the WebViewBuilder configuration (never changes once built)
    wrappers,   \* every WebViewWrapper ever built, by allocation index
    cont,       \* per wrapper: the state of its asynchronous continuation
    posted,     \* the sends handed to the engine (post_web_message_as_json)
    dropped,    \* the sends made on a wrapper whose controller was None
    sent,       \* number of sends posted or dropped so far
    eager,      \* the handle returned by WebViewBuilder::build (0: none yet)
    instance,   \* WebViewOptional::instance (0: None)
    panicked,   \* an unwrap() panicked: the process is gone
    last        \* the operation that ran last, with what it saw and returned

vars == <<builder, wrappers, cont, posted, dropped, sent, eager, instance,
          panicked, last>>

Handles == DOMAIN wrappers

NoCalls == <<>>

Call(name) == [call |-> name, rect |-> <<>>]

CallRect(name, rect) == [call |-> name, rect |-> rect]

\* The record kept in `last`.
Last(op, target, h, res, calls, pre_instance, pre_ctrl, event, window_id) ==
    [op |-> op, target |-> target, h |-> h, res |-> res, calls |-> calls,
     pre_instance |-> pre_instance, pre_ctrl |-> pre_ctrl,
     event |-> event, window_id |-> window_id]

NoEvent == [kind |-> "None", width |-> 0, height |-> 0, text |-> <<>>]

\* WebViewBuilder::new and the builder methods: every visibility policy,
\* without or with the two init functions (settings, webview_init).
Builders ==
    { [show_on |-> p, settings_fn |-> f, webview_fn |-> f] :
        p \in ShowWebview, f \in BOOLEAN }

Init ==
    /\ builder \in Builders
    /\ wrappers = <<>>
    /\ cont = <<>>
    /\ posted = {}
    /\ dropped = {}
    /\ sent = 0
    /\ eager = 0
    /\ instance = 0
    /\ panicked = FALSE
    /\ last = Last("init", "none", 0, "Ok", NoCalls, 0, "NA", NoEvent, 0)

\* ------------------------------------------------- WebViewBuilder::build
\* Outcomes of the two fallible synchronous calls of build_with_proxy:
\* WindowBuilder::build (line 191) and EnvironmentBuilder::build (line 297).
BuildOutcomes == {"ok", "window_error", "env_error"}

\* NewWrapper with the controller cell of the previous build carried over
\* instead of a new Rc::new(RefCell::new(None)).
NewWrapperSharedCell(w) ==
    [window |-> w,
     controller |-> IF Len(wrappers) > 0 /\ cont[Len(wrappers)].done # {}
                    THEN "Some" ELSE "None",
     alive |-> TRUE,
     visible |-> (builder.show_on = "Immediately"), shown |-> 0]

\* The WebViewWrapper of lines 194-198 around the new window w.  The window is
\* built with_visible(show_on == Immediately) (line 190).  shown: how often
\* do_it called set_visible(true) on the window (0, 1, or 2 for twice and
\* more).
NewWrapper(w) ==
    [window |-> w, controller |-> "None", alive |-> TRUE,
     visible |-> (builder.show_on = "Immediately"), shown |-> 0]

\* A wrapper whose last strong reference is dropped: the window is destroyed
\* and the controller cell, with the controller in it, is freed.
DropWrapper(wr) ==
    [wr EXCEPT !.alive = FALSE, !.controller = "None", !.visible = FALSE,
               !.shown = 0]

\* stage: "env" (environment requested), "ctrl" (controller requested),
\* "finished" (the controller callback returned Ok), "aborted" (a callback
\* returned Err), "none" (nothing was scheduled).  done: the steps of the
\* controller callback that completed.
NewCont(stage) == [stage |-> stage, done |-> {}]

\* build_with_proxy without the `?` of line 297: a failure of
\* EnvironmentBuilder::build is dropped and the wrapper returned.
build_with_proxy_EnvErrorIgnored(outcome) ==
    IF outcome = "window_error"
    THEN [res |-> "WindowBuildError", h |-> 0,
          wrappers |-> wrappers, cont |-> cont]
    ELSE [res |-> "Ok", h |-> Len(wrappers) + 1,
          wrappers |-> Append(wrappers, NewWrapper(Len(wrappers) + 1)),
          cont |-> Append(cont, NewCont(IF outcome = "env_error"
                                        THEN "none" ELSE "env"))]

\* build_with_proxy: the result returned to the caller, the index of the
\* wrapper returned (0 on Err) and the wrappers / continuations afterwards.
build_with_proxy(outcome) ==
    IF outcome = "window_error"
    THEN [res |-> "WindowBuildError", h |-> 0,
          wrappers |-> wrappers, cont |-> cont]
    ELSE LET w == Len(wrappers) + 1 IN
         IF outcome = "env_error"
    THEN \* the `?` of line 297 returns; `webview` and its window are dropped
         [res |-> "WebView2Error", h |-> 0,
          wrappers |-> Append(wrappers, DropWrapper(NewWrapper(w))),
          cont |-> Append(cont, NewCont("none"))]
    ELSE [res |-> "Ok", h |-> Len(wrappers) + 1,
          wrappers |-> Append(wrappers, NewWrapper(w)),
          cont |-> Append(cont, NewCont("env"))]

\* WebViewBuilder::build, called by the host once.
Build(outcome) ==
    /\ ~panicked
    /\ eager = 0
    /\ Len(wrappers) < MaxHandles
    /\ LET r == build_with_proxy(outcome)
       IN  /\ wrappers' = r.wrappers
           /\ cont' = r.cont
           /\ eager' = r.h
           /\ last' = Last("build", "eager", r.h, r.res, NoCalls,
                           instance, "NA", NoEvent, 0)
    /\ UNCHANGED <<builder, posted, dropped, sent, instance, panicked>>

\* ------------------------------------- the asynchronous continuation
\* ContinuationSteps with the store moved ahead of the observers and of the
\* post-creation init function.
ContinuationStepsStoreEarly ==
    <<"host", "get_webview">>
    \o (IF builder.settings_fn THEN <<"get_settings", "settings_fn">> ELSE <<>>)
    \o <<"put_bounds", "store", "add_document_title_changed">>
    \o (IF builder.show_on = "OnNavigationCompleted"
            THEN <<"add_navigation_completed">>
        ELSE IF builder.show_on = "OnContentLoading"
            THEN <<"add_content_loading">>
        ELSE <<>>)
    \o <<"add_window_close_requested", "add_web_message_received">>
    \o (IF builder.webview_fn THEN <<"webview_fn">> ELSE <<>>)

\* ContinuationSteps that end without the store of lines 290-293.
ContinuationStepsNoStore ==
    <<"host", "get_webview">>
    \o (IF builder.settings_fn THEN <<"get_settings", "settings_fn">> ELSE <<>>)
    \o <<"put_bounds", "add_document_title_changed">>
    \o (IF builder.show_on = "OnNavigationCompleted"
            THEN <<"add_navigation_completed">>
        ELSE IF builder.show_on = "OnContentLoading"
            THEN <<"add_content_loading">>
        ELSE <<>>)
    \o <<"add_window_close_requested", "add_web_message_received">>
    \o (IF builder.webview_fn THEN <<"webview_fn">> ELSE <<>>)

\* The fallible steps of the create_controller callback (lines 210-295), in
\* program order, for the builder's configuration.
ContinuationSteps ==
    <<"host", "get_webview">>
    \o (IF builder.settings_fn THEN <<"get_settings", "settings_fn">> ELSE <<>>)
    \o <<"put_bounds", "add_document_title_changed">>
    \o (IF builder.show_on = "OnNavigationCompleted"
            THEN <<"add_navigation_completed">>
        ELSE IF builder.show_on = "OnContentLoading"
            THEN <<"add_content_loading">>
        ELSE <<>>)
    \o <<"add_window_close_requested", "add_web_message_received">>
    \o (IF builder.webview_fn THEN <<"webview_fn">> ELSE <<>>)
    \o <<"store">>

\* RunSteps without the `?`: a failing step is passed over and the steps
\* after it run, the store included.
RunStepsKeepGoing(steps, i, failAt, done) ==
    [res |-> IF failAt = 0 THEN "Ok" ELSE "WebView2Error",
     done |-> {steps[k] : k \in (DOMAIN steps) \ {failAt}}]

\* Runs the steps from index i on; the step at index failAt returns Err and
\* the `?` ends the callback there (failAt = 0: nothing fails).
RECURSIVE RunSteps(_, _, _, _)
RunSteps(steps, i, failAt, done) ==
    IF i > Len(steps) THEN [res |-> "Ok", done |-> done]
    ELSE IF i = failAt THEN [res |-> "WebView2Error", done |-> done]
    ELSE RunSteps(steps, i + 1, failAt, done \cup {steps[i]})

\* The callback given to EnvironmentBuilder::build (lines 206-297): `env?`
\* and then create_controller, either of which may fail.
EnvCallback(h, ok) ==
    /\ ~panicked
    /\ h \in Handles
    /\ cont[h].stage = "env"
    /\ cont' = [cont EXCEPT ![h].stage = IF ok THEN "ctrl" ELSE "aborted"]
    /\ last' = Last("env_callback", "engine", h,
                    IF ok THEN "Ok" ELSE "WebView2Error",
                    IF ok THEN <<Call("create_controller")>> ELSE NoCalls,
                    instance, wrappers[h].controller, NoEvent, 0)
    /\ UNCHANGED <<builder, wrappers, posted, dropped, sent, eager, instance,
                   panicked>>

\* The controller callback holding a strong reference to the cell: the
\* store is made whether or not the handle still exists.
ControllerCallback_StoreUnchecked(h, failAt) ==
    /\ ~panicked
    /\ h \in Handles
    /\ cont[h].stage = "ctrl"
    /\ failAt \in 0..(Len(ContinuationSteps) - 1)
    /\ LET r == RunSteps(ContinuationSteps, 1, failAt, {})
       IN  /\ cont' = [cont EXCEPT
                         ![h] = [stage |-> IF r.res = "Ok" THEN "finished"
                                           ELSE "aborted",
                                 done |-> IF "store" \in r.done
                                          THEN r.done ELSE {}]]
           /\ wrappers' = [wrappers EXCEPT
                         ![h].controller =
                             IF "store" \in r.done THEN "Some" ELSE @]
           /\ last' = Last("controller_callback", "engine", h, r.res,
                           IF "put_bounds" \in r.done
                           THEN <<Call("put_bounds")>>
                           ELSE NoCalls,
                           instance, wrappers[h].controller, NoEvent, 0)
    /\ UNCHANGED <<builder, posted, dropped, sent, eager, instance, panicked>>

\* The callback given to create_controller (lines 210-296).  The store of
\* lines 290-293 happens only if controller_weak still upgrades.
ControllerCallback(h, failAt) ==
    /\ ~panicked
    /\ h \in Handles
    /\ cont[h].stage = "ctrl"
    /\ failAt \in 0..(Len(ContinuationSteps) - 1)
    /\ LET r == RunSteps(ContinuationSteps, 1, failAt, {})
       IN  /\ cont' = [cont EXCEPT
                         ![h] = [stage |-> IF r.res = "Ok" THEN "finished"
                                           ELSE "aborted",
                                 \* the local `controller` is dropped at
                                 \* the end of the callback, and the
                                 \* webview with its observers with it,
                                 \* unless it was moved into the cell
                                 done |-> IF "store" \in r.done
                                             /\ wrappers[h].alive
                                          THEN r.done ELSE {}]]
           /\ wrappers' = [wrappers EXCEPT
                         ![h].controller =
                             IF "store" \in r.done /\ wrappers[h].alive
                             THEN "Some" ELSE @]
           /\ last' = Last("controller_callback", "engine", h, r.res,
                           IF "put_bounds" \in r.done
                           THEN <<Call("put_bounds")>>
                           ELSE NoCalls,
                           instance, wrappers[h].controller, NoEvent, 0)
    /\ UNCHANGED <<builder, posted, dropped, sent, eager, instance, panicked>>

\* -------------------------------------------------------- WebViewWrapper
\* The result of an operation: what it returns, the engine / OS calls it
\* issued, and the sends it handed to the engine.
Result(res, calls, posts) == [res |-> res, calls |-> calls, posts |-> posts]

\* send_msg that posts without looking at the controller cell.
WebViewWrapper_send_msg_Unchecked(h, m, fail) ==
    IF fail = "get_webview"
    THEN Result("WebView2Error", <<Call("get_webview")>>, {})
    ELSE IF fail = "serialize"
    THEN Result("SerializationError", <<Call("get_webview")>>, {})
    ELSE IF fail = "call"
    THEN Result("WebView2Error",
                <<Call("get_webview"), Call("post_web_message_as_json")>>, {})
    ELSE Result("Ok",
                <<Call("get_webview"), Call("post_web_message_as_json")>>, {m})

\* WebViewWrapper::send_msg, for the send numbered m.
WebViewWrapper_send_msg(h, m, fail) ==
    IF wrappers[h].controller # "None"
    THEN IF fail = "get_webview"
         THEN Result("WebView2Error", <<Call("get_webview")>>, {})
         ELSE IF fail = "serialize"
         THEN Result("SerializationError", <<Call("get_webview")>>, {})
         ELSE IF fail = "call"
         THEN Result("WebView2Error",
                     <<Call("get_webview"), Call("post_web_message_as_json")>>,
                     {})
         ELSE Result("Ok",
                     <<Call("get_webview"), Call("post_web_message_as_json")>>,
                     {m})
    ELSE Result("Ok", NoCalls, {})

\* is_window with the comparison inverted.
WebViewWrapper_is_window_Inverted(h, window_id) ==
    window_id # wrappers[h].window

\* WebViewWrapper::is_window
WebViewWrapper_is_window(h, window_id) ==
    window_id = wrappers[h].window

\* webview_with that succeeds silently, as send_msg does, when the controller
\* is None.
WebViewWrapper_webview_with_Silent(h, fail) ==
    IF wrappers[h].controller # "None"
    THEN IF fail = "get_webview"
         THEN Result("WebView2Error", <<Call("get_webview")>>, {})
         ELSE Result("Ok", <<Call("get_webview"), Call("cb")>>, {})
    ELSE Result("Ok", NoCalls, {})

\* WebViewWrapper::webview_with; the call "cb" is the caller's callback.
WebViewWrapper_webview_with(h, fail) ==
    IF wrappers[h].controller # "None"
    THEN IF fail = "get_webview"
         THEN Result("WebView2Error", <<Call("get_webview")>>, {})
         ELSE Result("Ok", <<Call("get_webview"), Call("cb")>>, {})
    ELSE Result("ControllerNotCreated", NoCalls, {})

\* handle_window_event that swallows a missing controller.
WebViewWrapper_handle_window_event_Swallow(h, t, window_id, fail) ==
    IF window_id # wrappers[h].window
    THEN Result("Ok", NoCalls, {})
    ELSE IF wrappers[h].controller = "None"
    THEN Result("Ok", NoCalls, {})
    ELSE IF t.kind = "Moved"
    THEN Result(IF fail = "call" THEN "WebView2Error" ELSE "Ok",
                <<Call("notify_parent_window_position_changed")>>, {})
    ELSE IF t.kind = "Resized"
    THEN Result(IF fail = "call" THEN "WebView2Error" ELSE "Ok",
                <<CallRect("put_bounds",
                           <<0, 0, AsI32(t.width), AsI32(t.height)>>)>>, {})
    ELSE Result("Ok", NoCalls, {})

\* handle_window_event with the sides of the rectangle exchanged.
WebViewWrapper_handle_window_event_Transposed(h, t, window_id, fail) ==
    IF ~WebViewWrapper_is_window(h, window_id)
    THEN Result("Ok", NoCalls, {})
    ELSE IF wrappers[h].controller = "None"
    THEN Result("ControllerNotCreated", NoCalls, {})
    ELSE IF t.kind = "Moved"
    THEN Result(IF fail = "call" THEN "WebView2Error" ELSE "Ok",
                <<Call("notify_parent_window_position_changed")>>, {})
    ELSE IF t.kind = "Resized"
    THEN Result(IF fail = "call" THEN "WebView2Error" ELSE "Ok",
                <<CallRect("put_bounds",
                           <<0, 0, AsI32(t.height), AsI32(t.width)>>)>>, {})
    ELSE Result("Ok", NoCalls, {})

\* handle_window_event that looks at the controller before the window id.
WebViewWrapper_handle_window_event_ControllerFirst(h, t, window_id, fail) ==
    IF wrappers[h].controller = "None"
    THEN Result("ControllerNotCreated", NoCalls, {})
    ELSE IF ~WebViewWrapper_is_window(h, window_id)
    THEN Result("Ok", NoCalls, {})
    ELSE IF t.kind = "Moved"
    THEN Result(IF fail = "call" THEN "WebView2Error" ELSE "Ok",
                <<Call("notify_parent_window_position_changed")>>, {})
    ELSE IF t.kind = "Resized"
    THEN Result(IF fail = "call" THEN "WebView2Error" ELSE "Ok",
                <<CallRect("put_bounds",
                           <<0, 0, AsI32(t.width), AsI32(t.height)>>)>>, {})
    ELSE Result("Ok", NoCalls, {})

\* handle_window_event whose match has no arm for Moved.
WebViewWrapper_handle_window_event_MovedIgnored(h, t, window_id, fail) ==
    IF ~WebViewWrapper_is_window(h, window_id)
    THEN Result("Ok", NoCalls, {})
    ELSE IF wrappers[h].controller = "None"
    THEN Result("ControllerNotCreated", NoCalls, {})
    ELSE IF t.kind = "Resized"
    THEN Result(IF fail = "call" THEN "WebView2Error" ELSE "Ok",
                <<CallRect("put_bounds",
                           <<0, 0, AsI32(t.width), AsI32(t.height)>>)>>, {})
    ELSE Result("Ok", NoCalls, {})

\* WebViewWrapper::handle_window_event
WebViewWrapper_handle_window_event(h, t, window_id, fail) ==
    IF ~WebViewWrapper_is_window(h, window_id)
    THEN Result("Ok", NoCalls, {})
    ELSE IF wrappers[h].controller = "None"
    THEN Result("ControllerNotCreated", NoCalls, {})
    ELSE IF t.kind = "Moved"
    THEN Result(IF fail = "call" THEN "WebView2Error" ELSE "Ok",
                <<Call("notify_parent_window_position_changed")>>, {})
    ELSE IF t.kind = "Resized"
    THEN Result(IF fail = "call" THEN "WebView2Error" ELSE "Ok",
                <<CallRect("put_bounds",
                           <<0, 0, AsI32(t.width), AsI32(t.height)>>)>>, {})
    ELSE Result("Ok", NoCalls, {})

\* The host calls send_msg on the handle build returned.
SendMsg(fail) ==
    /\ ~panicked
    /\ eager # 0
    /\ sent < MaxSends
    \* only an engine call that is made can fail
    /\ fail # "none"
          => WebViewWrapper_send_msg(eager, sent + 1, "none").calls # NoCalls
    /\ LET m == sent + 1
           r == WebViewWrapper_send_msg(eager, m, fail)
       IN  /\ sent' = IF r.posts # {} \/ wrappers[eager].controller = "None"
                      THEN m ELSE sent
           /\ posted' = posted \cup r.posts
           /\ dropped' = IF wrappers[eager].controller = "None"
                         THEN dropped \cup {m} ELSE dropped
           /\ last' = Last("send_msg", "eager", eager, r.res, r.calls,
                           instance, wrappers[eager].controller, NoEvent, 0)
    /\ UNCHANGED <<builder, wrappers, cont, eager, instance, panicked>>

\* The host calls webview_with on the handle build returned.
WebviewWith(fail) ==
    /\ ~panicked
    /\ eager # 0
    /\ fail # "none"
          => WebViewWrapper_webview_with(eager, "none").calls # NoCalls
    /\ LET r == WebViewWrapper_webview_with(eager, fail)
       IN  last' = Last("webview_with", "eager", eager, r.res, r.calls,
                        instance, wrappers[eager].controller, NoEvent, 0)
    /\ UNCHANGED <<builder, wrappers, cont, posted, dropped, sent, eager,
                   instance, panicked>>

\* The host forwards a window event to the handle build returned.
HandleWindowEvent(t, window_id, fail) ==
    /\ ~panicked
    /\ eager # 0
    /\ fail # "none"
          => WebViewWrapper_handle_window_event(eager, t, window_id,
                                                "none").calls # NoCalls
    /\ LET r == WebViewWrapper_handle_window_event(eager, t, window_id, fail)
       IN  last' = Last("handle_window_event", "eager", eager, r.res, r.calls,
                        instance, wrappers[eager].controller, t, window_id)
    /\ UNCHANGED <<builder, wrappers, cont, posted, dropped, sent, eager,
                   instance, panicked>>

\* ------------------------------------------------------- WebViewOptional
\* WebViewOptional::send_msg that reports success when the slot is Closed.
WebViewOptional_send_msg_ClosedOk(m, fail) ==
    IF instance # 0
    THEN WebViewWrapper_send_msg(instance, m, fail)
    ELSE Result("Ok", NoCalls, {})

\* WebViewOptional::send_msg
WebViewOptional_send_msg(m, fail) ==
    IF instance # 0
    THEN WebViewWrapper_send_msg(instance, m, fail)
    ELSE Result("WebviewNotShown", NoCalls, {})

\* WebViewOptional::is_window that remembers the last window built, whether
\* or not the slot still holds it.
WebViewOptional_is_window_Stale(window_id) ==
    /\ Len(wrappers) > 0
    /\ window_id = wrappers[Len(wrappers)].window

\* WebViewOptional::is_window
WebViewOptional_is_window(window_id) ==
    IF instance # 0
    THEN WebViewWrapper_is_window(instance, window_id)
    ELSE FALSE

\* webview_with that reports a Closed slot as a controller not yet created.
WebViewOptional_webview_with_Conflated(fail) ==
    IF instance # 0
    THEN WebViewWrapper_webview_with(instance, fail)
    ELSE Result("ControllerNotCreated", NoCalls, {})

\* WebViewOptional::webview_with
WebViewOptional_webview_with(fail) ==
    IF instance # 0
    THEN WebViewWrapper_webview_with(instance, fail)
    ELSE Result("WebviewNotShown", NoCalls, {})

\* show without the match on the slot: it builds whatever the slot holds.
WebViewOptional_show_AlwaysBuild(outcome) ==
    LET r == build_with_proxy(outcome)
    IN  [res |-> r.res, instance |-> r.h, calls |-> NoCalls,
         wrappers |-> r.wrappers, cont |-> r.cont]

\* WebViewOptional::show: the slot, the wrappers and the continuations
\* afterwards; res is "Ok" or the error that unwrap() panics with.
WebViewOptional_show(outcome) ==
    IF instance # 0
    THEN [res |-> "Ok", instance |-> instance,
          calls |-> <<Call("SetForegroundWindow")>>,
          wrappers |-> wrappers, cont |-> cont]
    ELSE LET r == build_with_proxy(outcome)
         IN  [res |-> r.res, instance |-> r.h, calls |-> NoCalls,
              wrappers |-> r.wrappers, cont |-> r.cont]

\* WebViewOptional::handle_window_event that closes on a CloseRequested of
\* any window.
WebViewOptional_handle_window_event_AnyWindow(event, window_id, fail) ==
    IF instance # 0
    THEN IF event.kind = "CloseRequested"
         THEN [r |-> Result("Ok", NoCalls, {}), instance |-> 0]
         ELSE [r |-> WebViewWrapper_handle_window_event(instance, event,
                                                        window_id, fail),
               instance |-> instance]
    ELSE [r |-> Result("WebviewNotShown", NoCalls, {}), instance |-> 0]

\* WebViewOptional::handle_window_event: the result and the slot afterwards.
WebViewOptional_handle_window_event(event, window_id, fail) ==
    IF instance # 0
    THEN IF WebViewWrapper_is_window(instance, window_id)
            /\ event.kind = "CloseRequested"
         THEN [r |-> Result("Ok", NoCalls, {}), instance |-> 0]
         ELSE [r |-> WebViewWrapper_handle_window_event(instance, event,
                                                        window_id, fail),
               instance |-> instance]
    ELSE [r |-> Result("WebviewNotShown", NoCalls, {}), instance |-> 0]

OptSendMsg(fail) ==
    /\ ~panicked
    /\ sent < MaxSends
    /\ fail # "none"
          => WebViewOptional_send_msg(sent + 1, "none").calls # NoCalls
    /\ LET m == sent + 1
           r == WebViewOptional_send_msg(m, fail)
           none == instance # 0 /\ wrappers[instance].controller = "None"
       IN  /\ sent' = IF r.posts # {} \/ none THEN m ELSE sent
           /\ posted' = posted \cup r.posts
           /\ dropped' = IF none THEN dropped \cup {m} ELSE dropped
           /\ last' = Last("send_msg", "optional", instance, r.res, r.calls,
                           instance,
                           IF instance # 0 THEN wrappers[instance].controller
                           ELSE "NA",
                           NoEvent, 0)
    /\ UNCHANGED <<builder, wrappers, cont, eager, instance, panicked>>

OptWebviewWith(fail) ==
    /\ ~panicked
    /\ fail # "none" => WebViewOptional_webview_with("none").calls # NoCalls
    /\ LET r == WebViewOptional_webview_with(fail)
       IN  last' = Last("webview_with", "optional", instance, r.res, r.calls,
                        instance,
                        IF instance # 0 THEN wrappers[instance].controller
                        ELSE "NA",
                        NoEvent, 0)
    /\ UNCHANGED <<builder, wrappers, cont, posted, dropped, sent, eager,
                   instance, panicked>>

OptShow(outcome) ==
    /\ ~panicked
    /\ instance = 0 => Len(wrappers) < MaxHandles
    /\ LET r == WebViewOptional_show(outcome)
       IN  /\ wrappers' = r.wrappers
           /\ cont' = r.cont
           /\ instance' = r.instance
           /\ panicked' = (r.res # "Ok")
           /\ last' = Last("show", "optional", r.instance, r.res, r.calls,
                           instance,
                           IF instance # 0 THEN wrappers[instance].controller
                           ELSE "NA",
                           NoEvent, 0)
    /\ UNCHANGED <<builder, posted, dropped, sent, eager>>

OptHandleWindowEvent(event, window_id, fail) ==
    /\ ~panicked
    /\ fail # "none"
          => WebViewOptional_handle_window_event(event, window_id,
                                                 "none").r.calls # NoCalls
    /\ LET o == WebViewOptional_handle_window_event(event, window_id, fail)
       IN  /\ instance' = o.instance
           /\ wrappers' = IF instance # 0 /\ o.instance = 0
                          THEN [wrappers EXCEPT
                                  ![instance] = DropWrapper(@)]
                          ELSE wrappers
           /\ last' = Last("handle_window_event", "optional", instance,
                           o.r.res, o.r.calls, instance,
                           IF instance # 0 THEN wrappers[instance].controller
                           ELSE "NA",
                           event, window_id)
    /\ UNCHANGED <<builder, cont, posted, dropped, sent, eager, panicked>>

\* ---------------------------------------------------- engine observers
\* do_it behind a run-once latch: after its first complete run it does
\* nothing.
do_it_Once(h, fail) ==
    IF wrappers[h].shown >= 1
    THEN [res |-> "Ok", calls |-> NoCalls,
          visible |-> wrappers[h].visible, shown |-> wrappers[h].shown]
    ELSE IF wrappers[h].alive /\ wrappers[h].controller # "None"
            /\ fail = "call"
    THEN [res |-> "WebView2Error", calls |-> <<Call("put_is_visible")>>,
          visible |-> wrappers[h].visible, shown |-> wrappers[h].shown]
    ELSE [res |-> "Ok",
          calls |-> IF wrappers[h].alive /\ wrappers[h].controller # "None"
                    THEN <<Call("put_is_visible"), Call("set_visible")>>
                    ELSE IF wrappers[h].alive THEN <<Call("set_visible")>>
                    ELSE NoCalls,
          visible |-> IF wrappers[h].alive THEN TRUE ELSE wrappers[h].visible,
          shown |-> IF wrappers[h].alive THEN 1 ELSE wrappers[h].shown]

\* The closure do_it (lines 237-247), run by the navigation-completed or
\* content-loading observer of wrapper h.
do_it(h, fail) ==
    IF wrappers[h].alive /\ wrappers[h].controller # "None" /\ fail = "call"
    THEN [res |-> "WebView2Error", calls |-> <<Call("put_is_visible")>>,
          visible |-> wrappers[h].visible, shown |-> wrappers[h].shown]
    ELSE [res |-> "Ok",
          calls |-> IF wrappers[h].alive /\ wrappers[h].controller # "None"
                    THEN <<Call("put_is_visible"), Call("set_visible")>>
                    ELSE IF wrappers[h].alive THEN <<Call("set_visible")>>
                    ELSE NoCalls,
          visible |-> IF wrappers[h].alive THEN TRUE ELSE wrappers[h].visible,
          shown |-> IF wrappers[h].alive /\ wrappers[h].shown < 2
                    THEN wrappers[h].shown + 1 ELSE wrappers[h].shown]

\* The engine raises NavigationCompleted on the webview of wrapper h.
NavigationCompleted(h, fail) ==
    /\ ~panicked
    /\ h \in Handles
    /\ "add_navigation_completed" \in cont[h].done
    /\ fail # "none" => do_it(h, "none").calls # NoCalls
    /\ LET r == do_it(h, fail)
       IN  /\ wrappers' = [wrappers EXCEPT ![h].visible = r.visible,
                                           ![h].shown = r.shown]
           /\ last' = Last("navigation_completed", "engine", h, r.res,
                           r.calls, instance, wrappers[h].controller,
                           NoEvent, 0)
    /\ UNCHANGED <<builder, cont, posted, dropped, sent, eager, instance,
                   panicked>>

\* The engine raises ContentLoading on the webview of wrapper h.
ContentLoading(h, fail) ==
    /\ ~panicked
    /\ h \in Handles
    /\ "add_content_loading" \in cont[h].done
    /\ fail # "none" => do_it(h, "none").calls # NoCalls
    /\ LET r == do_it(h, fail)
       IN  /\ wrappers' = [wrappers EXCEPT ![h].visible = r.visible,
                                           ![h].shown = r.shown]
           /\ last' = Last("content_loading", "engine", h, r.res,
                           r.calls, instance, wrappers[h].controller,
                           NoEvent, 0)
    /\ UNCHANGED <<builder, cont, posted, dropped, sent, eager, instance,
                   panicked>>

\* The closure given to add_document_title_changed (lines 225-232): the
\* window is reached through window_weak, and only if it still upgrades.
document_title_changed(h, fail) ==
    IF ~wrappers[h].alive
    THEN Result("Ok", NoCalls, {})
    ELSE IF fail = "call"
    THEN Result("WebView2Error", <<Call("get_document_title")>>, {})
    ELSE Result("Ok", <<Call("get_document_title"), Call("set_title"),
                        Call("request_redraw")>>, {})

\* The engine raises DocumentTitleChanged on the webview of wrapper h.
DocumentTitleChanged(h, fail) ==
    /\ ~panicked
    /\ h \in Handles
    /\ "add_document_title_changed" \in cont[h].done
    /\ fail # "none" => document_title_changed(h, "none").calls # NoCalls
    /\ LET r == document_title_changed(h, fail)
       IN  last' = Last("document_title_changed", "engine", h, r.res,
                        r.calls, instance, wrappers[h].controller,
                        NoEvent, 0)
    /\ UNCHANGED <<builder, wrappers, cont, posted, dropped, sent, eager,
                   instance, panicked>>

\* ------------------------------------------------- inbound web messages
\* The text of a web message, as the JSON tokens it is made of.
Punct(v) == [t |-> "punct", v |-> v]

Str(v) == [t |-> "str", v |-> v]

Bare(v) == [t |-> "bare", v |-> v]

\* {"type": tag}
TaggedText(tag) ==
    <<Punct("{"), Str("type"), Punct(":"), Str(tag), Punct("}")>>

\* Texts web content may post: the two of main.rs (lines 77 and 98), an
\* unknown variant, an object without the tag, a text cut short, and text
\* that is no JSON.
WebMessages ==
    { TaggedText("HelloToServer"),
      TaggedText("OpenOptionalWindow"),
      TaggedText("HelloToWebview"),
      <<Punct("{"), Str("kind"), Punct(":"), Str("HelloToServer"), Punct("}")>>,
      <<Punct("{"), Str("type"), Punct(":"), Str("HelloToServer")>>,
      <<Bare("Garbled!")>> }

\* enum MsgFromWebView of main.rs, #[serde(tag = "type")]
MsgFromWebView == {"HelloToServer", "OpenOptionalWindow"}

ParseError == [ok |-> FALSE, fields |-> {}]

\* The members of a JSON object with string values, read from the key at
\* index i on, up to the closing brace that ends the text.
RECURSIVE ParseMembers(_, _, _)
ParseMembers(toks, i, fields) ==
    IF i + 3 > Len(toks) THEN ParseError
    ELSE IF toks[i].t # "str" \/ toks[i + 1] # Punct(":")
            \/ toks[i + 2].t # "str"
    THEN ParseError
    ELSE LET more == fields \cup {<<toks[i].v, toks[i + 2].v>>}
         IN  IF toks[i + 3] = Punct("}")
             THEN IF i + 3 = Len(toks)
                  THEN [ok |-> TRUE, fields |-> more] ELSE ParseError
             ELSE IF toks[i + 3] = Punct(",")
             THEN ParseMembers(toks, i + 4, more)
             ELSE ParseError

\* serde_json::from_str::<MsgFromWebView>(&message) (line 271): the text must
\* be a JSON object whose "type" member names a variant.
from_str(toks) ==
    IF Len(toks) < 2 \/ toks[1] # Punct("{") THEN [ok |-> FALSE, msg |-> ""]
    ELSE LET obj == IF toks[2] = Punct("}")
                    THEN IF Len(toks) = 2 THEN [ok |-> TRUE, fields |-> {}]
                         ELSE ParseError
                    ELSE ParseMembers(toks, 2, {})
             tags == {f[2] : f \in {g \in obj.fields : g[1] = "type"}}
         IN  IF ~obj.ok \/ tags = {} THEN [ok |-> FALSE, msg |-> ""]
             ELSE LET tag == CHOOSE x \in tags : TRUE
                  IN  IF tag \in MsgFromWebView
                      THEN [ok |-> TRUE, msg |-> tag]
                      ELSE [ok |-> FALSE, msg |-> ""]

\* The closure with a `?` on the result of from_str: a text that does not
\* decode is returned to the engine as an error.
web_message_received_Fatal(message, fail) ==
    IF fail = "call"
    THEN Result("WebView2Error",
                <<Call("try_get_web_message_as_string")>>, {})
    ELSE LET parsed == from_str(message)
         IN  IF parsed.ok
             THEN Result("Ok",
                         <<Call("try_get_web_message_as_string"),
                           CallRect("pass_to_event_loop_proxy",
                                    <<parsed.msg>>)>>, {})
             ELSE Result("SerializationError",
                         <<Call("try_get_web_message_as_string")>>, {})

\* The closure given to add_web_message_received (lines 268-284).
web_message_received(message, fail) ==
    IF fail = "call"
    THEN Result("WebView2Error",
                <<Call("try_get_web_message_as_string")>>, {})
    ELSE LET parsed == from_str(message)
         IN  IF parsed.ok
             THEN Result("Ok",
                         <<Call("try_get_web_message_as_string"),
                           CallRect("pass_to_event_loop_proxy",
                                    <<parsed.msg>>)>>, {})
             ELSE Result("Ok",
                         <<Call("try_get_web_message_as_string")>>, {})

\* The engine raises WebMessageReceived on the webview of wrapper h.
WebMessageReceived(h, message, fail) ==
    /\ ~panicked
    /\ h \in Handles
    /\ "add_web_message_received" \in cont[h].done
    /\ LET r == web_message_received(message, fail)
       IN  last' = Last("web_message_received", "engine", h, r.res, r.calls,
                        instance, wrappers[h].controller,
                        [kind |-> "WebMessage", width |-> 0, height |-> 0,
                         text |-> message], 0)
    /\ UNCHANGED <<builder, wrappers, cont, posted, dropped, sent, eager,
                   instance, panicked>>

\* ------------------------------------------- calls made from a callback
\* RefCell: a cell is "free", borrowed "shared" or borrowed "mut"; borrow()
\* panics on a cell borrowed "mut", borrow_mut() on a cell not "free".
Conflicts(held, kind) ==
    IF kind = "mut" THEN held # "free" ELSE held = "mut"

\* webview_with holds the guard of self.controller.borrow_mut() (line 345)
\* while the caller's callback runs (line 348).
HeldInCallback == "mut"

\* The &self methods of WebViewWrapper a callback can call on the handle.
NestedOps == {"send_msg", "webview_with", "handle_window_event", "is_window"}

\* Method op called on wrapper h while its controller cell is in state held:
\* is_window takes no borrow, handle_window_event returns ahead of its
\* borrow for another window's event, and send_msg (line 330), webview_with
\* (345) and handle_window_event (364) start with borrow_mut().
WebViewWrapper_nested(h, op, window_id, m, held) ==
    IF op = "is_window"
    THEN Result("Ok", NoCalls, {})
    ELSE IF op = "handle_window_event"
            /\ ~WebViewWrapper_is_window(h, window_id)
    THEN Result("Ok", NoCalls, {})
    ELSE IF Conflicts(held, "mut")
    THEN Result("BorrowMutError", NoCalls, {})
    ELSE IF op = "send_msg"
    THEN WebViewWrapper_send_msg(h, m, "none")
    ELSE IF op = "webview_with"
    THEN WebViewWrapper_webview_with(h, "none")
    ELSE WebViewWrapper_handle_window_event(
             h, [kind |-> "Moved", width |-> 0, height |-> 0, text |-> <<>>],
             window_id, "none")

\* The host calls webview_with with a callback that calls method op of the
\* same handle; a BorrowMutError is a panic.
WebviewWithCalling(op, window_id) ==
    /\ ~panicked
    /\ eager # 0
    /\ wrappers[eager].controller # "None"
    /\ op = "send_msg" => sent < MaxSends
    /\ LET inner == WebViewWrapper_nested(eager, op, window_id, sent + 1,
                                          HeldInCallback)
       IN  /\ panicked' = (inner.res = "BorrowMutError")
           /\ posted' = posted \cup inner.posts
           /\ sent' = IF inner.posts # {} THEN sent + 1 ELSE sent
           /\ last' = Last("webview_with", "eager", eager,
                           IF inner.res = "BorrowMutError"
                           THEN "BorrowMutError" ELSE "Ok",
                           <<Call("get_webview"), Call("cb"), Call(op)>>
                               \o inner.calls,
                           instance, wrappers[eager].controller, NoEvent,
                           window_id)
    /\ UNCHANGED <<builder, wrappers, cont, dropped, eager, instance>>

\* ------------------------------------------------------------ behaviour
\* What the engine does on its own: the callbacks of the continuation and
\* the observers.
EngineNext ==
    \/ \E h \in 1..MaxHandles, ok \in BOOLEAN : EnvCallback(h, ok)
    \/ \E h \in 1..MaxHandles, k \in 0..Len(ContinuationSteps) :
          ControllerCallback(h, k)
    \/ \E h \in 1..MaxHandles, f \in CallFails : NavigationCompleted(h, f)
    \/ \E h \in 1..MaxHandles, f \in CallFails : ContentLoading(h, f)
    \/ \E h \in 1..MaxHandles, f \in CallFails : DocumentTitleChanged(h, f)

\* A host that calls build once and drives the handle it got.
NextEager ==
    \/ \E o \in BuildOutcomes : Build(o)
    \/ \E f \in EngineFails : SendMsg(f)
    \/ \E f \in GetWebviewFails : WebviewWith(f)
    \/ \E t \in MoreWindowEvents, w \in WindowIds, f \in CallFails :
          HandleWindowEvent(t, w, f)
    \/ \E h \in 1..MaxHandles, m \in WebMessages, f \in CallFails :
          WebMessageReceived(h, m, f)
    \/ EngineNext

\* A host that calls build_optional and drives the optional slot.
NextOptional ==
    \/ \E o \in BuildOutcomes : OptShow(o)
    \/ \E f \in EngineFails : OptSendMsg(f)
    \/ \E f \in GetWebviewFails : OptWebviewWith(f)
    \/ \E t \in WindowEvents, w \in WindowIds, f \in CallFails :
          OptHandleWindowEvent(t, w, f)
    \/ EngineNext

SpecEager == Init /\ [][NextEager]_vars

SpecOptional == Init /\ [][NextOptional]_vars

\* The same host as NextEager, whose webview_with callbacks may call back
\* into the handle.
NextNested ==
    \/ NextEager
    \/ \E op \in NestedOps, w \in WindowIds : WebviewWithCalling(op, w)

SpecNested == Init /\ [][NextNested]_vars

\* The engine completes every request it accepted: a callback handed to
\* EnvironmentBuilder::build or to create_controller is eventually invoked.
EngineFairness ==
    /\ WF_vars(\E h \in 1..MaxHandles, ok \in BOOLEAN : EnvCallback(h, ok))
    /\ WF_vars(\E h \in 1..MaxHandles, k \in 0..Len(ContinuationSteps) :
                 ControllerCallback(h, k))

SpecEagerLive == SpecEager /\ EngineFairness

\* ================================================================ claims
ApiOps == {"send_msg", "webview_with", "handle_window_event"}

\* The step just taken is the operation op on the optional slot.
OptStep(op) == last'.target = "optional" /\ last'.op = op

\* The step just taken is the operation op on the handle build returned.
EagerStep(op) == last'.target = "eager" /\ last'.op = op

\* C1: on a Closed optional slot, send_msg, webview_with and
\* handle_window_event return WebviewNotShown, create no window, make no
\* engine call and leave the slot Closed, also after earlier show / close
\* cycles.
C1_ClosedReportsNotShown ==
    [][ (instance = 0 /\ last'.target = "optional" /\ last'.op \in ApiOps)
        => /\ last'.res = "WebviewNotShown"
           /\ last'.calls = NoCalls
           /\ wrappers' = wrappers
           /\ cont' = cont
           /\ posted' = posted
           /\ instance' = 0 ]_vars

\* A send on a slot that was shown and closed again reported WebviewNotShown.
C1_Witness ==
    /\ last.target = "optional" /\ last.op = "send_msg"
    /\ last.pre_instance = 0
    /\ last.res = "WebviewNotShown"
    /\ Len(wrappers) >= 1
    /\ ~panicked

AliveHandles == {h \in Handles : wrappers[h].alive}

\* C2: the optional slot holds at most one live window: none after
\* build_optional, a returning show on a Closed slot creates exactly one
\* window and opens the slot on it, a show on an Open slot creates nothing
\* and keeps the slot on the same window.
C2_AtMostOneWindow ==
    /\ [](/\ Cardinality(AliveHandles) <= 1
          /\ AliveHandles = IF instance = 0 THEN {} ELSE {instance}
          /\ last.op = "init" => wrappers = <<>>)
    /\ [][ OptStep("show")
           => IF instance = 0
              THEN panicked'
                   \/ /\ Len(wrappers') = Len(wrappers) + 1
                      /\ instance' = Len(wrappers')
                      /\ \A h \in Handles : wrappers'[h] = wrappers[h]
              ELSE /\ wrappers' = wrappers
                   /\ instance' = instance
                   /\ ~panicked' ]_vars

\* Two shows in a row: the second found the slot Open and left it on the
\* same window.
C2_Witness ==
    /\ last.target = "optional" /\ last.op = "show"
    /\ last.pre_instance # 0
    /\ instance = last.pre_instance
    /\ wrappers[instance].alive

\* C3: is_window(id) on the optional slot is true exactly when the slot is
\* Open and id is the window the most recent show built; on a Closed slot it
\* is false for every id, the id of the closed window included.
C3_IsWindowIffOpenAndMostRecent ==
    \A id \in 0..(MaxHandles + 1) :
        WebViewOptional_is_window(id)
            <=> /\ instance # 0
                /\ Len(wrappers) > 0
                /\ id = wrappers[Len(wrappers)].window

\* The slot was Open and a matching close request closed it.
C3_Witness ==
    /\ last.target = "optional" /\ last.op = "handle_window_event"
    /\ last.pre_instance # 0
    /\ instance = 0
    /\ ~WebViewOptional_is_window(wrappers[last.pre_instance].window)

\* What handle_window_event of the inner handle can return for the event.
InnerResults(h, event, window_id) ==
    { WebViewWrapper_handle_window_event(h, event, window_id, f) :
        f \in CallFails }

\* C4: on an Open slot a CloseRequested for the slot's window closes the
\* slot, returns Ok and makes no engine call, whatever the controller cell
\* holds; any other event or window leaves the slot Open and returns what the
\* inner handle returns.
C4_CloseRequestedCloses ==
    [][ (OptStep("handle_window_event") /\ instance # 0)
        => IF /\ last'.event.kind = "CloseRequested"
              /\ last'.window_id = wrappers[instance].window
           THEN /\ instance' = 0
                /\ last'.res = "Ok"
                /\ last'.calls = NoCalls
           ELSE /\ instance' = instance
                /\ wrappers' = wrappers
                /\ \E r \in InnerResults(instance, last'.event,
                                         last'.window_id) :
                      /\ last'.res = r.res
                      /\ last'.calls = r.calls ]_vars

\* A matching close request closed a slot whose controller was populated.
C4_Witness ==
    /\ last.target = "optional" /\ last.op = "handle_window_event"
    /\ last.event.kind = "CloseRequested"
    /\ last.pre_instance # 0
    /\ last.pre_ctrl = "Some"
    /\ last.res = "Ok"
    /\ instance = 0

\* C5: a show on a Closed slot builds a new handle: a window no earlier
\* handle had, an empty controller cell and a continuation of its own; a
\* controller cell is populated only by its own handle's continuation.
C5_ReshowIsFresh ==
    /\ [](\A h \in Handles :
            wrappers[h].controller = "Some" => cont[h].stage = "finished")
    /\ [][ (OptStep("show") /\ instance = 0 /\ ~panicked')
           => /\ instance' \notin Handles
              /\ wrappers'[instance'].controller = "None"
              /\ cont'[instance'].stage = "env"
              /\ \A h \in Handles :
                    wrappers[h].window # wrappers'[instance'].window ]_vars

\* The slot was re-shown after a handle whose controller had been populated
\* was closed; the new handle's controller is still empty.
C5_Witness ==
    /\ Len(wrappers) = 2
    /\ instance = 2
    /\ cont[1].done # {}
    /\ ~wrappers[1].alive
    /\ wrappers[2].controller = "None"

\* C6: send_msg on a handle whose controller cell is empty returns Ok, makes
\* no engine call, and the send is never handed to the engine later.
C6_SendBeforeControllerDropped ==
    /\ (last.op = "send_msg" /\ last.h # 0 /\ last.pre_ctrl = "None")
        => (last.res = "Ok" /\ last.calls = NoCalls)
    /\ posted \cap dropped = {}

\* A send was made while the controller was empty and the controller has
\* been populated since.
C6_Witness ==
    /\ eager # 0
    /\ dropped # {}
    /\ wrappers[eager].controller = "Some"

GeometryKinds == {"Moved", "Resized"}

\* C7: handle_window_event with Moved or Resized for the handle's own window
\* while the controller cell is empty returns ControllerNotCreated.
C7_GeometryBeforeControllerErrs ==
    (/\ last.target = "eager" /\ last.op = "handle_window_event"
     /\ last.event.kind \in GeometryKinds
     /\ last.window_id = wrappers[last.h].window
     /\ last.pre_ctrl = "None")
        => last.res = "ControllerNotCreated"

\* A Resized for the handle's own window arrived before the controller.
C7_Witness ==
    /\ last.target = "eager" /\ last.op = "handle_window_event"
    /\ last.event.kind = "Resized"
    /\ last.window_id = wrappers[last.h].window
    /\ last.pre_ctrl = "None"
    /\ last.res = "ControllerNotCreated"

\* C8 as stated: send_msg on a handle whose controller is not created yet
\* returns an error.
C8_SendBeforeControllerIsError ==
    (last.target = "eager" /\ last.op = "send_msg" /\ last.pre_ctrl = "None")
        => last.res # "Ok"

\* C8 amended: with the controller not created yet, send_msg returns Ok and
\* only webview_with reports ControllerNotCreated; neither makes an engine
\* call.
C8_OnlyWebviewWithReports ==
    (last.target = "eager" /\ last.pre_ctrl = "None")
        => /\ last.op = "send_msg" => last.res = "Ok"
           /\ last.op = "webview_with"
                => (last.res = "ControllerNotCreated"
                    /\ last.calls = NoCalls)

\* webview_with was called before the controller existed.
C8_Witness ==
    /\ last.target = "eager" /\ last.op = "webview_with"
    /\ last.pre_ctrl = "None"
    /\ last.res = "ControllerNotCreated"

\* C9 as stated: a Moved or Resized for the handle's own window while the
\* controller is not created yet reports no error.
C9_GeometryBeforeControllerSwallowed ==
    (/\ last.target = "eager" /\ last.op = "handle_window_event"
     /\ last.event.kind \in GeometryKinds
     /\ last.window_id = wrappers[last.h].window
     /\ last.pre_ctrl = "None")
        => last.res = "Ok"

\* C9 amended: such an event has no effect (no engine call, no change of the
\* handle, its continuation or the sends) and returns ControllerNotCreated,
\* which the caller may ignore.
C9_GeometryBeforeControllerNoEffect ==
    [][ (/\ EagerStep("handle_window_event")
         /\ last'.event.kind \in GeometryKinds
         /\ last'.window_id = wrappers[eager].window
         /\ wrappers[eager].controller = "None")
        => /\ last'.res = "ControllerNotCreated"
           /\ last'.calls = NoCalls
           /\ wrappers' = wrappers
           /\ cont' = cont
           /\ posted' = posted ]_vars

\* A Moved for the handle's own window arrived before the controller.
C9_Witness ==
    /\ last.target = "eager" /\ last.op = "handle_window_event"
    /\ last.event.kind = "Moved"
    /\ last.window_id = wrappers[last.h].window
    /\ last.pre_ctrl = "None"
    /\ last.calls = NoCalls

\* The steps the builder's configuration asks for ahead of the store.
WiringSteps ==
    {"put_bounds", "add_document_title_changed",
     "add_window_close_requested", "add_web_message_received"}
    \cup (IF builder.settings_fn THEN {"settings_fn"} ELSE {})
    \cup (IF builder.show_on = "OnNavigationCompleted"
          THEN {"add_navigation_completed"} ELSE {})
    \cup (IF builder.show_on = "OnContentLoading"
          THEN {"add_content_loading"} ELSE {})
    \cup (IF builder.webview_fn THEN {"webview_fn"} ELSE {})

\* C10: whenever a controller cell is populated, every step of the
\* continuation ahead of the store has completed (settings function, bounds,
\* the observers of the configuration, post-creation function), so no API
\* call observes a populated controller before them.
C10_PopulatedMeansFullyWired ==
    /\ \A h \in Handles :
          wrappers[h].controller = "Some" => WiringSteps \subseteq cont[h].done
    /\ (last.op \in ApiOps /\ last.pre_ctrl = "Some")
          => WiringSteps \subseteq cont[last.h].done

\* A send observed a populated controller under a configuration with a
\* settings function, a visibility observer and a post-creation function.
C10_Witness ==
    /\ builder.settings_fn /\ builder.webview_fn
    /\ builder.show_on # "Immediately"
    /\ last.op = "send_msg" /\ last.pre_ctrl = "Some"
    /\ last.res = "Ok"

\* C11: once a callback of the continuation has failed, the handle's
\* controller cell is empty and stays empty, the continuation is not
\* scheduled again, and the handle is inert: send_msg returns Ok without an
\* engine call, webview_with returns ControllerNotCreated.
C11_AbortedStaysInert ==
    /\ [](\A h \in Handles :
            cont[h].stage = "aborted" => wrappers[h].controller = "None")
    /\ [][ /\ \A h \in Handles :
               cont[h].stage = "aborted" => cont'[h].stage = "aborted"
           /\ (EagerStep("send_msg") /\ cont[eager].stage = "aborted")
                => posted' = posted ]_vars
    /\ []((/\ last.target = "eager" /\ last.h # 0
           /\ last.op \in {"send_msg", "webview_with"}
           /\ cont[last.h].stage = "aborted")
          => /\ last.calls = NoCalls
             /\ last.res = IF last.op = "send_msg" THEN "Ok"
                           ELSE "ControllerNotCreated")

\* webview_with was called on a handle whose continuation had failed.
C11_Witness ==
    /\ last.target = "eager" /\ last.op = "webview_with"
    /\ eager # 0
    /\ cont[eager].stage = "aborted"
    /\ last.res = "ControllerNotCreated"

\* C12 as stated: the only error build returns is WindowBuildError.
C12_BuildOnlyWindowError ==
    (last.op = "build" /\ last.res # "Ok") => last.res = "WindowBuildError"

\* C12 amended: build returns Ok, WindowBuildError, or the WebView2Error of
\* the synchronous EnvironmentBuilder::build call, after which no handle is
\* returned and no continuation is scheduled; a failure inside a callback of
\* the continuation never changes what build returned.
C12_BuildErrorsAreSynchronous ==
    /\ [](last.op = "build"
          => /\ last.res \in {"Ok", "WindowBuildError", "WebView2Error"}
             /\ last.res = "Ok"
                  => (eager = Len(wrappers) /\ cont[eager].stage = "env")
             /\ last.res = "WindowBuildError" => eager = 0
             /\ last.res = "WebView2Error"
                  => /\ eager = 0
                     /\ cont[Len(cont)].stage = "none"
                     /\ ~wrappers[Len(wrappers)].alive)
    /\ [][ last'.op \in {"env_callback", "controller_callback"}
           => eager' = eager ]_vars

\* build returned the error of EnvironmentBuilder::build.
C12_Witness ==
    /\ last.op = "build"
    /\ last.res = "WebView2Error"
    /\ eager = 0

\* The engine events that run do_it, and the one a policy registers for.
ShowEvents == {"navigation_completed", "content_loading"}

PolicyEvent ==
    IF builder.show_on = "OnNavigationCompleted" THEN "navigation_completed"
    ELSE IF builder.show_on = "OnContentLoading" THEN "content_loading"
    ELSE "none"

\* C13 as stated: with policy Immediately a live handle's window is visible
\* from construction on; with the other two policies the window turns
\* visible only in a step of the policy's own event, never of the other
\* one, and is visible after every occurrence of that event.
C13_VisibleAtPolicyEvent ==
    /\ [](\A h \in Handles :
            (wrappers[h].alive /\ builder.show_on = "Immediately")
            => wrappers[h].visible)
    /\ [][ \A h \in DOMAIN wrappers' :
            (/\ builder.show_on # "Immediately"
             /\ wrappers'[h].visible
             /\ (h \in Handles => ~wrappers[h].visible))
            => (h \in Handles /\ last'.op = PolicyEvent /\ last'.h = h)
         ]_vars
    /\ [][ (last'.op \in ShowEvents /\ wrappers'[last'.h].alive)
           => (last'.op = PolicyEvent /\ wrappers'[last'.h].visible) ]_vars

\* C14 as stated: the callback that shows the controller and the window
\* runs at most once per handle.
C14_ShowCallbackRunsOnce ==
    \A h \in Handles : wrappers[h].shown <= 1

\* C14 amended: the observer stays registered, so the callback runs at every
\* occurrence of the policy's event, the first and the later ones alike: it
\* calls put_is_visible(true) and then set_visible(true) and the window is
\* visible after it, or put_is_visible fails and the window is as it was; a
\* window once visible stays visible while its handle lives.
C14_ShowCallbackRunsEveryTime ==
    /\ [][ (last'.op \in ShowEvents /\ wrappers[last'.h].alive
            /\ last'.pre_ctrl = "Some")
           => \/ /\ last'.res = "Ok"
                 /\ last'.calls = <<Call("put_is_visible"),
                                    Call("set_visible")>>
                 /\ wrappers'[last'.h].visible
              \/ /\ last'.res = "WebView2Error"
                 /\ last'.calls = <<Call("put_is_visible")>>
                 /\ wrappers'[last'.h].visible = wrappers[last'.h].visible
         ]_vars
    /\ [][ \A h \in Handles :
            (wrappers[h].visible /\ wrappers'[h].alive)
            => wrappers'[h].visible ]_vars

\* The policy's event occurred a second time on a live handle and the
\* callback ran again.
C14_Witness ==
    /\ last.op \in ShowEvents
    /\ last.res = "Ok"
    /\ wrappers[last.h].alive
    /\ wrappers[last.h].shown = 2
    /\ last.calls = <<Call("put_is_visible"), Call("set_visible")>>

\* A handle_window_event call on the handle build returned, for the
\* handle's own window or for another one.
EagerEvent == last.target = "eager" /\ last.op = "handle_window_event"

OwnWindow == last.window_id = wrappers[last.h].window

\* C15: a Resized(width, height) event for the handle's own window, received
\* with the controller populated, issues exactly one controller call:
\* put_bounds with the rectangle (0, 0, width, height).
C15_ResizedPutsBounds ==
    (EagerEvent /\ OwnWindow /\ last.pre_ctrl = "Some"
     /\ last.event.kind = "Resized")
    => last.calls = <<[call |-> "put_bounds",
                       rect |-> <<0, 0, last.event.width,
                                  last.event.height>>]>>

\* The handle's window was resized to 800 x 450 with the controller
\* populated.
C15_Witness ==
    /\ EagerEvent /\ OwnWindow
    /\ last.pre_ctrl = "Some"
    /\ last.event.kind = "Resized"
    /\ last.event.width = 800 /\ last.event.height = 450
    /\ last.res = "Ok"
    /\ last.calls[1].rect = <<0, 0, 800, 450>>

\* The two texts that decode as MsgFromWebView, written out.
WellFormedMessages ==
    { <<[t |-> "punct", v |-> "{"], [t |-> "str", v |-> "type"],
        [t |-> "punct", v |-> ":"], [t |-> "str", v |-> tag],
        [t |-> "punct", v |-> "}"]>> :
      tag \in {"HelloToServer", "OpenOptionalWindow"} }

\* The positions of a call sequence that hand a message to the event loop
\* proxy.
Deliveries(calls) ==
    {i \in DOMAIN calls : calls[i].call = "pass_to_event_loop_proxy"}

\* The observer ran and the engine handed it the text of the message.
MessageStep ==
    last'.op = "web_message_received" /\ last'.res # "WebView2Error"

\* C16: for a text that does not decode as MsgFromWebView the observer
\* hands nothing to the event loop proxy, returns Ok, and leaves the handle
\* and the registered observers as they were; a well-formed text, also one
\* that follows a text that did not decode, is handed over exactly once, as
\* the variant it names.
C16_GarbledIgnored ==
    [][ MessageStep
        => /\ last'.res = "Ok"
           /\ wrappers' = wrappers /\ cont' = cont
           /\ "add_web_message_received" \in cont'[last'.h].done
           /\ IF last'.event.text \in WellFormedMessages
              THEN /\ Cardinality(Deliveries(last'.calls)) = 1
                   /\ \A i \in Deliveries(last'.calls) :
                        last'.calls[i].rect = <<last'.event.text[4].v>>
              ELSE Deliveries(last'.calls) = {}
      ]_vars

\* The page posted "Garbled!": nothing was delivered and the observer is
\* still registered.
C16_Witness ==
    /\ last.op = "web_message_received"
    /\ last.event.text = <<[t |-> "bare", v |-> "Garbled!"]>>
    /\ last.res = "Ok"
    /\ Deliveries(last.calls) = {}
    /\ "add_web_message_received" \in cont[last.h].done

\* The positions of a call sequence that invoke the caller's callback.
Callbacks(calls) == {i \in DOMAIN calls : calls[i].call = "cb"}

\* C17: webview_with on the optional slot invokes the caller's callback only
\* with the controller populated, and then once, returning Ok exactly when
\* it did; on a Closed slot it returns WebviewNotShown and on an Open slot
\* whose controller is pending ControllerNotCreated, both without invoking
\* the callback or calling the engine.
C17_WebviewWithOnlyWhenPopulated ==
    (last.target = "optional" /\ last.op = "webview_with")
    => /\ Cardinality(Callbacks(last.calls)) <= 1
       /\ Callbacks(last.calls) # {}
            => (last.pre_instance # 0 /\ last.pre_ctrl = "Some")
       /\ (last.res = "Ok") = (Callbacks(last.calls) # {})
       /\ last.pre_instance = 0
            => (last.res = "WebviewNotShown" /\ last.calls = NoCalls)
       /\ (last.pre_instance # 0 /\ last.pre_ctrl = "None")
            => (last.res = "ControllerNotCreated" /\ last.calls = NoCalls)

\* webview_with was called on an Open slot whose controller was pending.
C17_Witness ==
    /\ last.target = "optional" /\ last.op = "webview_with"
    /\ last.pre_instance # 0
    /\ last.pre_ctrl = "None"
    /\ last.res = "ControllerNotCreated"
    /\ Callbacks(last.calls) = {}

\* C18: handle_window_event called with the id of a window that is not the
\* handle's own returns Ok and makes no controller call, whatever the event
\* and whether the controller cell is empty or populated.
C18_OtherWindowIsNoOp ==
    (EagerEvent /\ ~OwnWindow)
    => /\ last.res = "Ok"
       /\ last.calls = NoCalls
       /\ wrappers[last.h].controller = last.pre_ctrl

\* A Resized of another window reached a handle whose controller cell was
\* empty.
C18_Witness ==
    /\ EagerEvent
    /\ last.window_id # wrappers[last.h].window
    /\ last.event.kind = "Resized"
    /\ last.pre_ctrl = "None"
    /\ last.res = "Ok"

\* C19: with the controller populated and the handle's own window id, Moved
\* makes exactly one call, notify_parent_window_position_changed, Resized
\* exactly one, put_bounds, and every other event none and returns Ok; an
\* error is returned only from a call that was made, and the controller
\* cell stays populated.
C19_OnlyMovedAndResizedCall ==
    (EagerEvent /\ OwnWindow /\ last.pre_ctrl = "Some")
    => /\ Len(last.calls) = IF last.event.kind \in GeometryKinds
                            THEN 1 ELSE 0
       /\ last.event.kind = "Moved"
            => last.calls[1].call = "notify_parent_window_position_changed"
       /\ last.event.kind = "Resized" => last.calls[1].call = "put_bounds"
       /\ last.res \in {"Ok", "WebView2Error"}
       /\ last.event.kind \notin GeometryKinds => last.res = "Ok"
       /\ wrappers[last.h].controller = "Some"

\* CloseRequested for its own window reached a populated handle returned by
\* build.
C19_Witness ==
    /\ EagerEvent /\ OwnWindow
    /\ last.pre_ctrl = "Some"
    /\ last.event.kind = "CloseRequested"
    /\ last.res = "Ok"
    /\ last.calls = NoCalls
    /\ wrappers[last.h].alive

\* The handle build returned has its controller cell populated.
EagerPopulated == eager # 0 /\ wrappers[eager].controller = "Some"

\* Once populated, the cell of the handle stays populated.
StaysPopulated ==
    [][ EagerPopulated => wrappers'[eager].controller = "Some" ]_vars

\* Under fair scheduling of the engine's callbacks the cell of a handle
\* build returned becomes populated, unless a step of the continuation
\* failed.
EventuallyPopulated ==
    (eager # 0) ~> (/\ eager # 0
                    /\ \/ wrappers[eager].controller = "Some"
                       \/ cont[eager].stage = "aborted")

\* C20 as stated: the cell eventually becomes populated and stays so, and
\* every send_msg made after that posts exactly one message.
C20_PopulatedAndEverySendPosts ==
    /\ EventuallyPopulated
    /\ StaysPopulated
    /\ [][ (EagerStep("send_msg") /\ EagerPopulated)
           => Cardinality(posted' \ posted) = 1 ]_vars

\* C20 amended: the cell eventually becomes populated and stays so; a
\* send_msg made after that either posts exactly one message and returns
\* Ok, or returns the error of get_webview, of the serializer or of
\* post_web_message_as_json and posts nothing.
C20_PopulatedAndSendPostsOrErrs ==
    /\ EventuallyPopulated
    /\ StaysPopulated
    /\ [][ (EagerStep("send_msg") /\ EagerPopulated)
           => \/ /\ last'.res = "Ok"
                 /\ Cardinality(posted' \ posted) = 1
                 /\ dropped' = dropped
              \/ /\ last'.res \in {"WebView2Error", "SerializationError"}
                 /\ posted' = posted
                 /\ dropped' = dropped ]_vars

\* A send_msg made with the cell populated posted its message.
C20_Witness ==
    /\ EagerPopulated
    /\ cont[eager].stage = "finished"
    /\ last.target = "eager" /\ last.op = "send_msg"
    /\ last.pre_ctrl = "Some"
    /\ last.res = "Ok"
    /\ posted # {}

\* The observers that reach the window: title changed and the two that run
\* do_it.
WindowObservers ==
    {"document_title_changed", "navigation_completed", "content_loading"}

\* The step just taken is an engine callback of a handle that had been
\* discarded before it.
LateCallback ==
    /\ last'.target = "engine"
    /\ last'.h \in Handles
    /\ ~wrappers[last'.h].alive

\* C21: an engine callback that runs after its handle was discarded changes
\* nothing of the host: the store of the continuation populates no
\* controller cell, not the discarded handle's and not that of a handle a
\* later show created, the optional slot is as it was, and the title-changed
\* and visibility callbacks make no call on any window.
C21_LateCallbacksAreNoOps ==
    [][ LateCallback
        => /\ wrappers' = wrappers
           /\ instance' = instance
           /\ posted' = posted
           /\ last'.op \in WindowObservers
                => (last'.calls = NoCalls /\ last'.res = "Ok")
      ]_vars

\* The continuation of a closed handle ran to its end while the slot held a
\* newer handle, whose controller cell is still empty.
C21_Witness ==
    /\ last.op = "controller_callback" /\ last.res = "Ok"
    /\ ~wrappers[last.h].alive
    /\ wrappers[last.h].controller = "None"
    /\ instance # 0 /\ instance # last.h
    /\ wrappers[instance].controller = "None"

\* C22 as stated: no access to the controller cell is attempted while a
\* conflicting borrow of it is held, so no step ends in the borrow panic.
C22_NoConflictingBorrow ==
    ~(panicked /\ last.res = "BorrowMutError")

====
